---- MODULE Spec2Model ----
(***************************************************************************)
(* Opus Control backend (server/server.py): the analysis-and-remediation   *)
(* pipeline.  Ingestion of the metric stream into a bounded buffer, the    *)
(* candidate selector, the two anomaly detectors, the cooldown-gated       *)
(* auto-fix dispatch, the override/dismiss ledger kept in the Redis hash   *)
(* opus:overrides, and the fan-out to WebSocket sessions.                  *)
(*                                                                         *)
(* Units.  cpu_percent and mem_mb are integers.  throttle values are kept  *)
(* in tenths (0.5 is 5, the interval [0,1] is 0..10).  The monotonic clock *)
(* is in seconds.  Python None / a missing dict key is the empty sequence  *)
(* <<>> and a present value v is <<v>>.  Process names are sequences of    *)
(* one-character strings, "" is <<>>.  The write-only stamp last_updated   *)
(* of an override record is read by no code path and is left out.          *)
(***************************************************************************)
EXTENDS Integers, Sequences, FiniteSets, TLC

\* ------------------------------------------------------------ constants
BUFFER_MAX_ITEMS == 500
ANALYZE_INTERVAL_SEC == 10
DEFAULT_THROTTLE_VALUE == 5
AUTO_FIX_COOLDOWN_SEC == 60
DISMISS_SUGGEST_THRESHOLD == 3
DEFAULT_CPU_THRESHOLD == 90
DEFAULT_MEM_THRESHOLD_MB == 1500
DEFAULT_TIME_WINDOW_SEC == 60
XREAD_COUNT == 50
TOP_CANDIDATES == 20

\* ------------------------------------------------------------ bounds
\* Longest preloaded metric log of the buffer specification.
MaxLog == 700
\* Records the producer adds to the stream in the pipeline specification.
MaxStream == 2
\* Largest value of the monotonic clock.
MaxNow == 130
\* Viewer messages handled in one behaviour.
MaxViewerMsgs == 2
\* Longest candidate list given to the rule-based detector on its own.
MaxCandidates == 3
\* Longest metric log of the poison specification.
MaxPoisonLog == 5
\* Longest snapshot given to the selector on its own.
MaxSnapshot == 22

\* ------------------------------------------------------------ values
None == <<>>
Some(v) == <<v>>
IsNone(o) == o = <<>>
Val(o) == o[1]

Min2(a, b) == IF a < b THEN a ELSE b
Max2(a, b) == IF a > b THEN a ELSE b
\* max(0.0, min(1.0, float(x))) in tenths
Clamp01(x) == Max2(0, Min2(10, x))

LastN(s, n) == IF n >= Len(s) THEN s ELSE SubSeq(s, Len(s) - n + 1, Len(s))

\* A stream entry's data field.  kind "obj" is a JSON object (a metric
\* sample), "scalar" is valid JSON that is not an object, "poison" is text
\* that json.loads rejects, "badutf8" is bytes that are no UTF-8 text,
\* "nodata" is an entry without a data field.
Payload(k, p, n, c, m) == [kind |-> k, pid |-> p, name |-> n, cpu_percent |-> c, mem_mb |-> m]
Sample(p, n, c, m) == Payload("obj", p, n, c, m)
Poison == Payload("poison", 0, <<>>, 0, 0)
Scalar == Payload("scalar", 0, <<>>, 0, 0)
NoData == Payload("nodata", 0, <<>>, 0, 0)
BadUtf8 == Payload("badutf8", 0, <<>>, 0, 0)

Pids == {1, 2}
\* A pid the external model may name that is no candidate's pid.
ForeignPid == 7
TargetPids == Pids \cup {ForeignPid}

NameAb == <<"a", "b">>
NameNg == <<"N", "g">>
Names == {<<>>, NameAb, NameNg}

\* The samples of scripts/inject_test_metrics.py, scaled to two pids: a
\* process over the cpu threshold, one over the memory threshold only, and
\* a quiet sample of the first process.
HotCpu == Sample(1, NameAb, 95, 200)
HotMem == Sample(2, NameNg, 5, 1800)
Quiet == Sample(1, <<>>, 10, 50)
StreamPayloads == {HotCpu, HotMem, Quiet, Scalar}

\* The preloaded log of the buffer specification: record i is a sample
\* with pid i (so that order and identity of the entries are visible),
\* every 13th record is poison and every 17th has no data field.
LogRecord(i) ==
    IF i % 13 = 0 THEN Poison
    ELSE IF i % 17 = 0 THEN NoData
    ELSE Sample(i, <<>>, i % 100, i)
LogOfLength(n) == [i \in 1..n |-> LogRecord(i)]

\* ------------------------------------------------------------ state
VARIABLES
    stream,             \* the Redis stream system:metrics (entry i has id i)
    last_id,            \* stream_consumer's cursor
    consumer_pc,        \* "poll" | "backoff"
    metrics_buffer,     \* deque(maxlen=BUFFER_MAX_ITEMS)
    now,                \* time.monotonic()
    last_auto_fix,      \* pid -> None | Some(monotonic time)
    channel,            \* last message published on system:commands
    auto_published,     \* pid -> None | Some(time the last auto-fix for pid was published)
    api_key,            \* whether ANTHROPIC_API_KEY is set
    ctx_store,          \* the context as get_context returns it from Redis
    redis_context,      \* the four opus:context:* keys: None | Some(stored value)
    body,               \* None | Some(body of the last PUT /api/context)
    overrides,          \* the Redis hash opus:overrides: pid -> None | Some(record)
    analysis_pc,        \* position of analysis_loop
    snapshot,           \* analysis_loop's snapshot of the buffer
    metrics_for_claude, \* the candidates of the running cycle
    thresholds,         \* the thresholds of the running cycle
    result,             \* None | Some(anomaly result) of the running cycle
    command,            \* None | Some(command awaiting publish)
    reply,              \* the external model's answer (detector specification)
    an_pending,         \* sessions the anomaly broadcast has yet to send to
    an_copy,            \* list(ws_connections) of the cycle's anomaly broadcast
    an_delivered,       \* sessions that received the cycle's anomaly message
    ws_connections,     \* list of live sessions
    conn,               \* session -> "new" | "open" | "broken" | "closed"
    handler,            \* session -> position and locals of its message handler
    msgs,               \* viewer messages received so far
    dismissed,          \* pid -> number of dismiss_anomaly handlers completed
    bc_pc,              \* position of metrics_broadcast_loop
    bc_pending,         \* sessions the metrics broadcast has yet to send to
    bc_copy,            \* list(ws_connections) of the running metrics broadcast
    bc_delivered,       \* sessions that received the running metrics broadcast
    send_failed         \* sessions a broadcast send to which has failed

ingestVars == <<stream, last_id, consumer_pc, metrics_buffer>>
dispatchVars == <<now, last_auto_fix, channel, auto_published>>
configVars == <<api_key, ctx_store, redis_context, body>>
cycleVars == <<analysis_pc, snapshot, metrics_for_claude, thresholds, result, command, reply,
               an_pending, an_copy, an_delivered>>
sessionVars == <<ws_connections, conn, handler, msgs, dismissed>>
broadcastVars == <<bc_pc, bc_pending, bc_copy, bc_delivered, send_failed>>
vars == <<ingestVars, dispatchVars, configVars, overrides, cycleVars, sessionVars, broadcastVars>>

\* ------------------------------------------------------------ ingestion
\* Mutant of DequeAppend: a full buffer refuses the new entry.
DequeAppendKeepOldest(buf, obj) ==
    IF Len(buf) >= BUFFER_MAX_ITEMS THEN buf ELSE Append(buf, obj)

\* metrics_buffer.append(obj) on a deque with maxlen: the oldest entry is
\* dropped when the deque is full.
DequeAppend(buf, obj) ==
    IF Len(buf) >= BUFFER_MAX_ITEMS THEN Append(Tail(buf), obj) ELSE Append(buf, obj)

\* json.loads(raw) succeeds on every payload but poison.
JsonDecodes(p) == p.kind \in {"obj", "scalar"}

\* The body of stream_consumer's inner loop for one entry: an entry without
\* data is skipped, a payload that does not decode is dropped, any decoded
\* value is appended.
ProcessEntry(buf, e) ==
    IF e.kind = "nodata" THEN buf
    ELSE IF JsonDecodes(e) THEN DequeAppend(buf, e)
    ELSE buf

\* The inner loop over entries lo..hi of a batch, in order.  The range is
\* split in halves and the first half is evaluated before the second is
\* entered, which keeps the evaluation shallow.
RECURSIVE ProcessRange(_, _, _, _)
ProcessRange(buf, entries, lo, hi) ==
    IF lo > hi THEN buf
    ELSE IF lo = hi THEN ProcessEntry(buf, entries[lo])
    ELSE LET mid == (lo + hi) \div 2
             left == ProcessRange(buf, entries, lo, mid)
         IN IF Len(left) >= 0 THEN ProcessRange(left, entries, mid + 1, hi) ELSE left

ProcessEntries(buf, entries) == ProcessRange(buf, entries, 1, Len(entries))

\* raw.decode("utf-8") of line 453 raises UnicodeDecodeError, which the
\* inner except (JSONDecodeError, TypeError) does not catch: the for loop
\* ends at the first such entry of the batch (0: there is none).
FirstRaising(batch) ==
    IF \E i \in 1..Len(batch) : batch[i].kind = "badutf8"
    THEN CHOOSE i \in 1..Len(batch) :
            batch[i].kind = "badutf8" /\ \A j \in 1..(i - 1) : batch[j].kind # "badutf8"
    ELSE 0

\* the entries of a batch that the for loop gets to
Handled(batch) ==
    IF FirstRaising(batch) = 0 THEN batch ELSE SubSeq(batch, 1, FirstRaising(batch))

\* Mutant of CursorAfter: the cursor stays in front of an entry that does
\* not decode.
CursorAfterStall(cursor, batch) ==
    IF \E i \in 1..Len(batch) : batch[i].kind \in {"poison", "badutf8"}
    THEN cursor + (CHOOSE i \in 1..Len(batch) :
                      /\ batch[i].kind \in {"poison", "badutf8"}
                      /\ \A j \in 1..(i - 1) : batch[j].kind \notin {"poison", "badutf8"}) - 1
    ELSE cursor + Len(batch)

\* last_id = entry_id (line 441) comes first in the loop body, so the
\* cursor is past every entry the loop got to, the raising one included.
CursorAfter(cursor, batch) == cursor + Len(Handled(batch))

\* xread({STREAM_KEY: last_id}, count=50): the entries after the cursor, at
\* most XREAD_COUNT of them.
XRead(s, cursor) == SubSeq(s, cursor + 1, Min2(Len(s), cursor + XREAD_COUNT))

\* ------------------------------------------------------------ strings
LowerCase == <<"a","b","c","d","e","f","g","h","i","j","k","l","m","n","o","p","q","r","s","t","u","v","w","x","y","z">>
UpperCase == <<"A","B","C","D","E","F","G","H","I","J","K","L","M","N","O","P","Q","R","S","T","U","V","W","X","Y","Z">>
DigitChars == <<"0","1","2","3","4","5","6","7","8","9">>

\* str.lower()
LowerChar(c) ==
    IF \E i \in 1..Len(UpperCase) : UpperCase[i] = c
    THEN LowerCase[CHOOSE i \in 1..Len(UpperCase) : UpperCase[i] = c]
    ELSE c
Lower(str) == [i \in 1..Len(str) |-> LowerChar(str[i])]

\* str.strip() for the blank
RECURSIVE LStrip(_)
LStrip(str) == IF str # <<>> /\ Head(str) = " " THEN LStrip(Tail(str)) ELSE str
RECURSIVE RStrip(_)
RStrip(str) == IF str # <<>> /\ str[Len(str)] = " " THEN RStrip(SubSeq(str, 1, Len(str) - 1)) ELSE str
Strip(str) == RStrip(LStrip(str))

\* str(pid) for a pid >= 0
RECURSIVE PidStr(_)
PidStr(p) == IF p < 10 THEN <<DigitChars[p + 1]>> ELSE PidStr(p \div 10) \o <<DigitChars[(p % 10) + 1]>>

\* sub in str
Contains(sub, str) ==
    \E i \in 0..(Len(str) - Len(sub)) : SubSeq(str, i + 1, i + Len(sub)) = sub

\* ------------------------------------------------------------ build_metrics_for_analysis
\* n = min(len(buffer_snapshot), max(1, int(time_window_sec / 1.5))), with
\* `time_window_sec or 60` for a stored 0.
WindowSize(len, tw) ==
    LET w == IF tw = 0 THEN DEFAULT_TIME_WINDOW_SEC ELSE tw
        q == IF w > 0 THEN (2 * w) \div 3 ELSE 0
    IN Min2(len, Max2(1, q))

Recent(buffer_snapshot, context) ==
    LastN(buffer_snapshot, WindowSize(Len(buffer_snapshot), context.time_window_sec))

\* Mutant of ByPidPut: the first sample of a pid stays.
ByPidPutKeepFirst(d, m) ==
    IF \E i \in 1..Len(d) : d[i].pid = m.pid THEN d ELSE Append(d, m)

\* by_pid[pid] = m: the dict keeps a pid at the position of its first
\* insertion and the value of its last.
ByPidPut(d, m) ==
    IF \E i \in 1..Len(d) : d[i].pid = m.pid
    THEN [i \in 1..Len(d) |-> IF d[i].pid = m.pid THEN m ELSE d[i]]
    ELSE Append(d, m)

RECURSIVE ByPid(_, _)
ByPid(d, recent) ==
    IF recent = <<>> THEN d
    ELSE LET d1 == ByPidPut(d, Head(recent))
         IN IF Len(d1) >= 0 THEN ByPid(d1, Tail(recent)) ELSE d1

\* is_ignored(proc)
IsIgnored(proc, ignore) ==
    \E ign \in ignore :
        LET s == Lower(ign)
        IN Contains(s, Lower(proc.name)) \/ s = PidStr(proc.pid)

\* watch_set = {str(x).lower().strip() for x in watch if x}
WatchSet(watch) == {Strip(Lower(x)) : x \in {y \in watch : y # <<>>}}

\* Mutant of IsWatched: only the pid string is compared.
IsWatchedByPidOnly(v, watch) == \E w \in WatchSet(watch) : PidStr(v.pid) = w

\* the test of line 205 on a sample left out by the ignore list
IsWatched(v, watch) ==
    LET name == Lower(v.name)
        pid_str == PidStr(v.pid)
    IN \/ \E w \in WatchSet(watch) : name = w \/ pid_str = w
       \/ \E w \in WatchSet(watch) : Contains(w, name) \/ w = pid_str

\* Mutant of SortedInsert: the key is compared the other way round.
SortedInsertAscending(sorted, m) ==
    LET k == Cardinality({i \in 1..Len(sorted) : sorted[i].cpu_percent <= m.cpu_percent})
    IN SubSeq(sorted, 1, k) \o <<m>> \o SubSeq(sorted, k + 1, Len(sorted))

\* sorted(candidates, key=cpu_percent, reverse=True): a stable sort, so an
\* element goes behind every element whose cpu_percent is not smaller.
SortedInsert(sorted, m) ==
    LET k == Cardinality({i \in 1..Len(sorted) : sorted[i].cpu_percent >= m.cpu_percent})
    IN SubSeq(sorted, 1, k) \o <<m>> \o SubSeq(sorted, k + 1, Len(sorted))

RECURSIVE SortByCpuDesc(_, _)
SortByCpuDesc(sorted, rest) ==
    IF rest = <<>> THEN sorted
    ELSE LET s1 == SortedInsert(sorted, Head(rest))
         IN IF Len(s1) >= 0 THEN SortByCpuDesc(s1, Tail(rest)) ELSE s1

\* m.get(...) on a buffer entry that is no dict raises AttributeError.
BuildRaises(buffer_snapshot, context) ==
    \E i \in 1..Len(Recent(buffer_snapshot, context)) :
        Recent(buffer_snapshot, context)[i].kind # "obj"

\* build_metrics_for_analysis on a snapshot of dicts
BuildMetricsForAnalysis(buffer_snapshot, context) ==
    IF buffer_snapshot = <<>> THEN <<>>
    ELSE LET by_pid == ByPid(<<>>, Recent(buffer_snapshot, context))
             kept == SelectSeq(by_pid, LAMBDA v : ~IsIgnored(v, context.ignore))
             back == SelectSeq(by_pid, LAMBDA v : IsIgnored(v, context.ignore)
                                                  /\ IsWatched(v, context.watch))
             all == SortByCpuDesc(<<>>, kept \o back)
         IN SubSeq(all, 1, Min2(Len(all), TOP_CANDIDATES))

\* ------------------------------------------------------------ _rule_based_anomaly
RuleResult(m, why) ==
    [reasoning_trace |-> why,
     suggested_action |-> "Throttle CPU",
     target_pid |-> m.pid,
     target_name |-> m.name,
     throttle_value |-> Some(DEFAULT_THROTTLE_VALUE),
     auto_fix_applied |-> FALSE,
     user_usual_throttle |-> None,
     dismiss_count |-> None,
     suggest_reduce_alerts |-> FALSE]

\* Mutant of OverCpu: a candidate on the threshold counts as over it.
OverCpuOrEqual(m, cpu_threshold) == m.cpu_percent >= cpu_threshold

\* cpu > cpu_threshold
OverCpu(m, cpu_threshold) == m.cpu_percent > cpu_threshold
\* mem > mem_threshold_mb
OverMem(m, mem_threshold_mb) == m.mem_mb > mem_threshold_mb

\* The loop of _rule_based_anomaly from position i: one pass, and at each
\* candidate the cpu test, then the memory test.
RECURSIVE RuleScan(_, _, _, _)
RuleScan(metrics, i, cpu_threshold, mem_threshold_mb) ==
    IF i > Len(metrics) THEN None
    ELSE IF OverCpu(metrics[i], cpu_threshold) THEN Some(RuleResult(metrics[i], "cpu"))
    ELSE IF OverMem(metrics[i], mem_threshold_mb) THEN Some(RuleResult(metrics[i], "mem"))
    ELSE RuleScan(metrics, i + 1, cpu_threshold, mem_threshold_mb)

RuleBasedAnomaly(metrics, th) == RuleScan(metrics, 1, th.cpu_percent, th.mem_mb)

\* ------------------------------------------------------------ the external model's answer
\* A response text is a sequence of tokens: an opening or closing brace, the
\* key/value pairs of a JSON object, a markdown fence, prose, or a JSON
\* value that is not an object (an array, null).  The key/value pairs that
\* the detector reads are kept as a record: anomaly, target_pid,
\* suggested_action, throttle_value, target_name.  A number read with int()
\* or float() is JNum(n); a string that is no number is JNaN.
JNum(n) == [num |-> TRUE, n |-> n]
JNaN == [num |-> FALSE, n |-> 0]
Fields(an, pid, act, tv, nm) ==
    [anomaly |-> an, target_pid |-> pid, suggested_action |-> act, throttle_value |-> tv, target_name |-> nm]
NoFields == Fields(FALSE, None, None, None, <<>>)
Tok(t, f) == [t |-> t, fields |-> f]
LBrace == Tok("{", NoFields)
RBrace == Tok("}", NoFields)
Fence == Tok("fence", NoFields)
Prose == Tok("prose", NoFields)
JArray == Tok("array", NoFields)
JNull == Tok("null", NoFields)
Pairs(f) == Tok("pairs", f)

\* What json.loads returns: nothing (JSONDecodeError), a dict, or another
\* JSON value with its truth value.
Parsed(k, f, truthy) == [kind |-> k, fields |-> f, truthy |-> truthy]
ParseError == Parsed("error", NoFields, FALSE)

\* depth of braces after the tokens 1..i of text
RECURSIVE Depth(_, _)
Depth(text, i) ==
    IF i = 0 THEN 0
    ELSE Depth(text, i - 1) + (IF text[i].t = "{" THEN 1 ELSE IF text[i].t = "}" THEN -1 ELSE 0)

\* json.loads(text) on a token sequence.  An object is an opening brace,
\* pairs and nested objects, and the matching closing brace; its own pairs
\* are the ones at depth one.  A lone array or null decodes to that value.
JsonLoads(text) ==
    IF Len(text) = 1 /\ text[1].t = "array" THEN Parsed("array", NoFields, TRUE)
    ELSE IF Len(text) = 1 /\ text[1].t = "null" THEN Parsed("null", NoFields, FALSE)
    ELSE IF /\ Len(text) >= 2
            /\ text[1].t = "{"
            /\ text[Len(text)].t = "}"
            /\ Depth(text, Len(text)) = 0
            /\ \A i \in 1..(Len(text) - 1) : Depth(text, i) > 0
            /\ \A i \in 1..Len(text) : text[i].t \in {"{", "}", "pairs"}
            /\ Cardinality({i \in 1..Len(text) : text[i].t = "pairs" /\ Depth(text, i) = 1}) <= 1
    THEN LET own == {i \in 1..Len(text) : text[i].t = "pairs" /\ Depth(text, i) = 1}
         IN IF own = {} THEN Parsed("dict", NoFields, FALSE)
            ELSE Parsed("dict", text[CHOOSE i \in own : TRUE].fields, TRUE)
    ELSE ParseError

\* lines 274-276: with a fence in the text, a leading and a trailing fence
\* are cut off
StripFences(text) ==
    IF \E i \in 1..Len(text) : text[i].t = "fence"
    THEN LET a == IF text[1].t = "fence" THEN Tail(text) ELSE text
         IN IF a # <<>> /\ a[Len(a)].t = "fence" THEN SubSeq(a, 1, Len(a) - 1) ELSE a
    ELSE text

\* _parse_claude_json: the first balanced brace-delimited object of the text
ParseClaudeJson(text0) ==
    LET text == StripFences(text0)
        opens == {i \in 1..Len(text) : text[i].t = "{"}
    IN IF opens = {} THEN JsonLoads(text)
       ELSE LET start == CHOOSE i \in opens : \A j \in opens : i <= j
                rest == SubSeq(text, start, Len(text))
                closes == {i \in 1..Len(rest) : rest[i].t = "}" /\ Depth(rest, i) = 0}
            IN IF closes = {} THEN JsonLoads(rest)
               ELSE JsonLoads(SubSeq(rest, 1, CHOOSE i \in closes : \A j \in closes : i <= j))

\* The outcome of the try block of analyze_with_claude (lines 318-387):
\* "raised" when anything in it raises, else the result it leaves (None
\* when the answer is not accepted).
Outcome(raised, r) == [raised |-> raised, result |-> r]

\* lines 379-387: the throttle_value of a "Throttle CPU" answer
ModelThrottle(tv) ==
    IF tv = None THEN DEFAULT_THROTTLE_VALUE
    ELSE IF Val(tv).num THEN Clamp01(Val(tv).n)
    ELSE DEFAULT_THROTTLE_VALUE

\* lines 370-387 on the text of the answer
ModelResult(text) ==
    LET parsed == ParseClaudeJson(text)
    IN IF parsed.kind = "error" THEN Outcome(FALSE, None)
       ELSE IF ~parsed.truthy THEN Outcome(FALSE, None)
       ELSE IF parsed.kind # "dict" THEN Outcome(TRUE, None)
       ELSE LET f == parsed.fields
                action == IF f.suggested_action = None THEN "Throttle CPU" ELSE Val(f.suggested_action)
            IN IF ~f.anomaly \/ f.target_pid = None THEN Outcome(FALSE, None)
               ELSE IF ~Val(f.target_pid).num THEN Outcome(TRUE, None)
               ELSE Outcome(FALSE, Some(
                    [reasoning_trace |-> "model",
                     suggested_action |-> action,
                     target_pid |-> Val(f.target_pid).n,
                     target_name |-> f.target_name,
                     throttle_value |-> IF action = "Throttle CPU"
                                        THEN Some(ModelThrottle(f.throttle_value)) ELSE None,
                     auto_fix_applied |-> FALSE,
                     user_usual_throttle |-> None,
                     dismiss_count |-> None,
                     suggest_reduce_alerts |-> FALSE]))

\* A reply of the external model: the call raises (error, timeout) or it
\* returns a text.
CallError == [failed |-> TRUE, text |-> <<>>]
Reply(text) == [failed |-> FALSE, text |-> text]

\* lines 317-391: the detection step.  Without a key the rules decide; with
\* one, the rules decide only when the try block raises.
Detect(key, answer, metrics, th) ==
    IF ~key THEN RuleBasedAnomaly(metrics, th)
    ELSE IF answer.failed THEN RuleBasedAnomaly(metrics, th)
    ELSE IF ModelResult(answer.text).raised THEN RuleBasedAnomaly(metrics, th)
    ELSE ModelResult(answer.text).result

\* The replies the model is checked with.
ThrottleAnswer(pid, tv) == Fields(TRUE, Some(JNum(pid)), Some("Throttle CPU"), tv, NameAb)
ModelReplies ==
    { CallError,
      Reply(<<Prose>>),
      Reply(<<JArray>>),
      Reply(<<JNull>>),
      Reply(<<LBrace, RBrace>>),
      Reply(<<LBrace, Pairs(ThrottleAnswer(1, None))>>),
      Reply(<<LBrace, Pairs(Fields(FALSE, None, None, None, <<>>)), RBrace>>),
      Reply(<<LBrace, Pairs(Fields(TRUE, None, None, None, <<>>)), RBrace>>),
      Reply(<<LBrace, Pairs(Fields(TRUE, Some(JNaN), None, None, <<>>)), RBrace>>),
      Reply(<<Fence, LBrace, Pairs(ThrottleAnswer(1, Some(JNum(3)))), RBrace, Fence>>),
      Reply(<<Prose, LBrace, Pairs(ThrottleAnswer(2, Some(JNum(15)))), LBrace, RBrace, RBrace, Prose>>),
      Reply(<<LBrace, Pairs(Fields(TRUE, Some(JNum(1)), None, Some(JNaN), <<>>)), RBrace>>),
      Reply(<<LBrace, Pairs(Fields(TRUE, Some(JNum(1)), Some("Kill"), None, NameAb)), RBrace>>),
      Reply(<<LBrace, Pairs(Fields(TRUE, Some(JNum(ForeignPid)), Some("Kill"), None, <<>>)), RBrace>>),
      Reply(<<LBrace, Pairs(Fields(TRUE, Some(JNum(2)), Some("Restart"), None, NameNg)), RBrace>>) }

\* ------------------------------------------------------------ idle values
Sessions == {1, 2}
IdleHandler == [op |-> "idle", pid |-> 0, name |-> <<>>, throttle |-> None, action |-> "", existing |-> None]
DefaultThresholds == [cpu_percent |-> DEFAULT_CPU_THRESHOLD, mem_mb |-> DEFAULT_MEM_THRESHOLD_MB]
\* get_context's defaults: nothing stored.
DefaultContext == [watch |-> {}, ignore |-> {}, thresholds |-> DefaultThresholds,
                   time_window_sec |-> DEFAULT_TIME_WINDOW_SEC]

\* No opus:context:* key is set.
EmptyStore == [watch |-> None, ignore |-> None, thresholds |-> None, time_window_sec |-> None]

IngestIdle == /\ stream = <<>>
              /\ last_id = 0
              /\ consumer_pc = "poll"
              /\ metrics_buffer = <<>>
DispatchIdle == /\ last_auto_fix = [p \in TargetPids |-> None]
                /\ channel = None
                /\ auto_published = [p \in TargetPids |-> None]
CycleIdle == /\ snapshot = <<>>
             /\ metrics_for_claude = <<>>
             /\ thresholds = DefaultThresholds
             /\ result = None
             /\ command = None
             /\ reply = CallError
             /\ an_pending = <<>>
             /\ an_copy = <<>>
             /\ an_delivered = {}
SessionsIdle == /\ ws_connections = <<>>
                /\ conn = [s \in Sessions |-> "new"]
                /\ handler = [s \in Sessions |-> IdleHandler]
                /\ msgs = 0
                /\ dismissed = [p \in Pids |-> 0]
BroadcastIdle == /\ bc_pc = "sleep"
                 /\ bc_pending = <<>>
                 /\ bc_copy = <<>>
                 /\ bc_delivered = {}
                 /\ send_failed = {}

\* ------------------------------------------------------------ stream_consumer
\* The producer (outside this program) appends a record to the stream.
XAdd ==
    /\ Len(stream) < MaxStream
    /\ \E p \in StreamPayloads : stream' = Append(stream, p)
    /\ UNCHANGED <<last_id, consumer_pc, metrics_buffer>>
    /\ UNCHANGED <<dispatchVars, configVars, overrides, cycleVars, sessionVars, broadcastVars>>

\* One iteration of stream_consumer whose xread returns entries: the cursor
\* moves past every entry the loop gets to and the decoded ones are
\* appended; an entry that raises ends the batch in the outer handler,
\* which sleeps one second (lines 460-461).  (An empty result leaves the
\* state as it is.)
ConsumerPoll ==
    /\ consumer_pc = "poll"
    /\ XRead(stream, last_id) # <<>>
    /\ last_id' = CursorAfter(last_id, XRead(stream, last_id))
    /\ metrics_buffer' = ProcessEntries(metrics_buffer, Handled(XRead(stream, last_id)))
    /\ consumer_pc' = IF FirstRaising(XRead(stream, last_id)) = 0 THEN "poll" ELSE "backoff"
    /\ UNCHANGED stream
    /\ UNCHANGED <<dispatchVars, configVars, overrides, cycleVars, sessionVars, broadcastVars>>

\* xread raises (transient I/O failure): the loop sleeps one second.
ConsumerFail ==
    /\ consumer_pc = "poll"
    /\ consumer_pc' = "backoff"
    /\ UNCHANGED <<stream, last_id, metrics_buffer>>
    /\ UNCHANGED <<dispatchVars, configVars, overrides, cycleVars, sessionVars, broadcastVars>>

\* The one-second sleep ends and the loop polls again.
ConsumerRetry ==
    /\ consumer_pc = "backoff"
    /\ consumer_pc' = "poll"
    /\ UNCHANGED <<stream, last_id, metrics_buffer>>
    /\ UNCHANGED <<dispatchVars, configVars, overrides, cycleVars, sessionVars, broadcastVars>>

\* ------------------------------------------------------------ commands and the ledger
\* A command is the list of its fields between colons; a field is a word,
\* an integer literal or a float literal (tenths).
CmdField(k, w, n) == [k |-> k, w |-> w, n |-> n]
Word(w) == CmdField("word", w, 0)
IntLit(n) == CmdField("int", "", n)
FloatLit(n) == CmdField("float", "", n)
\* f"throttle:{pid}:{throttle_val}"
ThrottleCommand(pid, tv) == <<Word("throttle"), IntLit(pid), FloatLit(tv)>>
\* f"kill:{pid}"
KillCommand(pid) == <<Word("kill"), IntLit(pid)>>

\* redis_client.publish(COMMANDS_CHANNEL, command): the message and who sent it
Published(cmd, by) == Some([command |-> cmd, by |-> by])

\* An override record, the JSON value of one field of opus:overrides.
OverrideRecord(lt, la, nm, dc) ==
    [last_throttle |-> lt, last_action |-> la, target_name |-> nm, dismiss_count |-> dc]
\* existing = {} of record_override
EmptyRecord == OverrideRecord(None, None, <<>>, None)

\* Mutant of MergeName: the new name is written even when it is empty.
MergeNameOverwrite(name, existing) == name

\* name or existing.get("target_name", "")
MergeName(name, existing) == IF name # <<>> THEN name ELSE existing.target_name

\* Mutant of OverrideWritten: a null throttle keeps the stored one.
OverrideWrittenMerge(existing, name, last_throttle, last_action) ==
    LET e == IF existing = None THEN EmptyRecord ELSE Val(existing)
    IN OverrideRecord(IF last_throttle = None THEN e.last_throttle ELSE last_throttle,
                      Some(last_action), MergeName(name, e), e.dismiss_count)

\* record_override, lines 112-116: the value written back
OverrideWritten(existing, name, last_throttle, last_action) ==
    LET e == IF existing = None THEN EmptyRecord ELSE Val(existing)
    IN OverrideRecord(last_throttle, Some(last_action), MergeName(name, e), e.dismiss_count)

\* int(existing.get("dismiss_count", 0))
DismissCountOf(rec) == IF rec.dismiss_count = None THEN 0 ELSE Val(rec.dismiss_count)

\* record_dismiss, lines 133-136: the value written back
DismissWritten(existing, name) ==
    LET e == IF existing = None THEN OverrideRecord(None, None, <<>>, Some(0)) ELSE Val(existing)
    IN OverrideRecord(e.last_throttle, e.last_action, MergeName(name, e), Some(DismissCountOf(e) + 1))

\* get_override(redis_client, pid)
GetOverride(ledger, pid) == IF pid \in DOMAIN ledger THEN ledger[pid] ELSE None

\* ------------------------------------------------------------ dispatch and enrichment
\* Mutant of CooldownOpen: the gate opens after half the cooldown.
CooldownOpenEarly(pid, t, laf) ==
    t - (IF laf[pid] = None THEN 0 ELSE Val(laf[pid])) >= AUTO_FIX_COOLDOWN_SEC \div 2

\* Mutant of CooldownOpen: the gate opens once for a pid.
CooldownOpenOnce(pid, t, laf) == laf[pid] = None /\ t >= AUTO_FIX_COOLDOWN_SEC

\* line 400: now - last_auto_fix.get(pid, 0) >= AUTO_FIX_COOLDOWN_SEC
CooldownOpen(pid, t, laf) ==
    t - (IF laf[pid] = None THEN 0 ELSE Val(laf[pid])) >= AUTO_FIX_COOLDOWN_SEC

\* lines 401-410: the command of a result, None for an action that is
\* neither "Throttle CPU" nor "Kill"
CommandOf(r) ==
    IF r.suggested_action = "Throttle CPU"
    THEN Some(ThrottleCommand(r.target_pid,
                Clamp01(IF r.throttle_value = None THEN DEFAULT_THROTTLE_VALUE ELSE Val(r.throttle_value))))
    ELSE IF r.suggested_action = "Kill" THEN Some(KillCommand(r.target_pid))
    ELSE None

\* Mutant of SuggestReduce: the threshold itself does not count.
SuggestReduceAbove(count) == count > DISMISS_SUGGEST_THRESHOLD

\* line 426: result["dismiss_count"] >= DISMISS_SUGGEST_THRESHOLD
SuggestReduce(count) == count >= DISMISS_SUGGEST_THRESHOLD

\* lines 419-427: the result with what the override record adds
Enrich(r, override) ==
    IF override = None THEN r
    ELSE LET o == Val(override)
         IN [r EXCEPT
               !.user_usual_throttle =
                   IF o.last_action = Some("throttle") /\ o.last_throttle # None
                   THEN Some(Clamp01(Val(o.last_throttle))) ELSE None,
               !.dismiss_count = Some(DismissCountOf(o)),
               !.suggest_reduce_alerts = SuggestReduce(DismissCountOf(o))]

\* ------------------------------------------------------------ analysis_loop
\* asyncio.sleep(ANALYZE_INTERVAL_SEC) lasts the interval or longer
SleepDurations == {3 * ANALYZE_INTERVAL_SEC, 6 * ANALYZE_INTERVAL_SEC}

\* The sleep ends and the loop takes its snapshot of the buffer (line 467).
AnalysisWake ==
    /\ analysis_pc = "sleep"
    /\ \E d \in SleepDurations : now + d <= MaxNow /\ now' = now + d
    /\ snapshot' = metrics_buffer
    /\ analysis_pc' = "get_context"
    /\ metrics_for_claude' = <<>>
    /\ thresholds' = DefaultThresholds
    /\ result' = None
    /\ an_copy' = <<>>
    /\ an_delivered' = {}
    /\ UNCHANGED <<command, reply, an_pending>>
    /\ UNCHANGED <<last_auto_fix, channel, auto_published>>
    /\ UNCHANGED <<ingestVars, configVars, overrides, sessionVars, broadcastVars>>

\* The rest of analyze_with_claude once the detector has returned r, up to
\* its next await: no result ends the cycle; a result whose pid is out of
\* cooldown and whose action has a command goes to publish; any other
\* result goes on to the override read with auto_fix_applied = False.
AfterDetection(r) ==
    IF r = None
    THEN /\ analysis_pc' = "sleep"
         /\ result' = None
         /\ command' = None
    ELSE IF CooldownOpen(Val(r).target_pid, now, last_auto_fix) /\ CommandOf(Val(r)) # None
    THEN /\ analysis_pc' = "publish"
         /\ result' = r
         /\ command' = CommandOf(Val(r))
    ELSE /\ analysis_pc' = "get_override"
         /\ result' = r
         /\ command' = None

\* get_context returns (line 468); the candidates are built; an empty list
\* ends the cycle; with a key the model is called, without one the rules
\* decide at once.
AnalysisContextRead ==
    /\ analysis_pc = "get_context"
    /\ ~BuildRaises(snapshot, ctx_store)
    /\ LET metrics == BuildMetricsForAnalysis(snapshot, ctx_store)
       IN IF metrics = <<>>
          THEN /\ analysis_pc' = "sleep"
               /\ UNCHANGED <<metrics_for_claude, thresholds, result, command>>
          ELSE IF api_key
          THEN /\ analysis_pc' = "model_call"
               /\ metrics_for_claude' = metrics
               /\ thresholds' = ctx_store.thresholds
               /\ UNCHANGED <<result, command>>
          ELSE /\ metrics_for_claude' = metrics
               /\ thresholds' = ctx_store.thresholds
               /\ AfterDetection(Detect(FALSE, CallError, metrics, ctx_store.thresholds))
    /\ snapshot' = <<>>
    /\ UNCHANGED <<reply, an_pending, an_copy, an_delivered>>
    /\ UNCHANGED <<ingestVars, dispatchVars, configVars, overrides, sessionVars, broadcastVars>>

\* A buffer entry in the window is no dict: m.get raises AttributeError in
\* build_metrics_for_analysis, nothing catches it, the task ends.
AnalysisBuildRaises ==
    /\ analysis_pc = "get_context"
    /\ BuildRaises(snapshot, ctx_store)
    /\ analysis_pc' = "crashed_attr"
    /\ snapshot' = <<>>
    /\ UNCHANGED <<metrics_for_claude, thresholds, result, command, reply, an_pending, an_copy, an_delivered>>
    /\ UNCHANGED <<ingestVars, dispatchVars, configVars, overrides, sessionVars, broadcastVars>>

\* The model call returns or raises (line 359), and the cycle runs on to
\* its next await.
AnalysisModelReturns ==
    /\ analysis_pc = "model_call"
    /\ \E answer \in ModelReplies :
          AfterDetection(Detect(TRUE, answer, metrics_for_claude, thresholds))
    /\ UNCHANGED <<snapshot, metrics_for_claude, thresholds, reply, an_pending, an_copy, an_delivered>>
    /\ UNCHANGED <<ingestVars, dispatchVars, configVars, overrides, sessionVars, broadcastVars>>

\* Mutant of CooldownStamp: the publish is not recorded.
CooldownStampForgets(laf, pid, t) == laf

\* lines 407, 412: last_auto_fix[pid] = now
CooldownStamp(laf, pid, t) == [laf EXCEPT ![pid] = Some(t)]

\* publish returns (lines 406-408, 411-413): the command is on the channel,
\* the cooldown map holds the time read at line 399.
AnalysisPublish ==
    /\ analysis_pc = "publish"
    /\ channel' = Published(Val(command), "auto")
    /\ last_auto_fix' = CooldownStamp(last_auto_fix, Val(result).target_pid, now)
    /\ auto_published' = [auto_published EXCEPT ![Val(result).target_pid] = Some(now)]
    /\ result' = Some([Val(result) EXCEPT !.auto_fix_applied = TRUE])
    /\ command' = None
    /\ analysis_pc' = "get_override"
    /\ UNCHANGED <<now, snapshot, metrics_for_claude, thresholds, reply, an_pending, an_copy, an_delivered>>
    /\ UNCHANGED <<ingestVars, configVars, overrides, sessionVars, broadcastVars>>

\* get_override returns (line 418), the result is enriched and returned, and
\* analysis_loop starts the broadcast over a copy of ws_connections.
AnalysisOverrideRead ==
    /\ analysis_pc = "get_override"
    /\ result' = Some(Enrich(Val(result), GetOverride(overrides, Val(result).target_pid)))
    /\ IF ws_connections = <<>>
       THEN analysis_pc' = "sleep" /\ an_pending' = <<>> /\ an_copy' = <<>>
       ELSE analysis_pc' = "send" /\ an_pending' = ws_connections /\ an_copy' = ws_connections
    /\ an_delivered' = {}
    /\ UNCHANGED <<snapshot, metrics_for_claude, thresholds, command, reply>>
    /\ UNCHANGED <<ingestVars, dispatchVars, configVars, overrides, sessionVars, broadcastVars>>

\* A Redis call of the cycle raises an I/O error (the context read of line
\* 468, the publish of line 406/411, the override read of line 418): none
\* of get_context, analyze_with_claude, get_override and analysis_loop
\* catches it, the task ends.
AnalysisStoreError ==
    /\ analysis_pc \in {"get_context", "publish", "get_override"}
    /\ analysis_pc' = "crashed_io"
    /\ snapshot' = <<>>
    /\ command' = None
    /\ UNCHANGED <<metrics_for_claude, thresholds, result, reply, an_pending, an_copy, an_delivered>>
    /\ UNCHANGED <<ingestVars, dispatchVars, configVars, overrides, sessionVars, broadcastVars>>

\* ws.send_text(msg) succeeds on a session whose peer is there and raises
\* on any other.
SendOk(c, ws) == c[ws] = "open"

\* Mutant of RestAfterSend: a send that raises ends the loop.
RestAfterSendAbort(pending, ok) == IF ok THEN Tail(pending) ELSE <<>>

\* try: await ws.send_text(msg) / except Exception: pass (lines 483-486 and
\* 734-737): whatever the send did, the loop goes on with the next session.
RestAfterSend(pending, ok) == Tail(pending)

\* ws.send_text(msg) of line 484 on the next session of the copy: a send to
\* a session that is not open raises, and the loop passes.
AnalysisSend ==
    /\ analysis_pc = "send"
    /\ LET ws == Head(an_pending)
           ok == SendOk(conn, ws)
       IN /\ send_failed' = IF ok THEN send_failed ELSE send_failed \cup {ws}
          /\ an_delivered' = IF ok THEN an_delivered \cup {ws} ELSE an_delivered
          /\ an_pending' = RestAfterSend(an_pending, ok)
          /\ analysis_pc' = IF RestAfterSend(an_pending, ok) = <<>> THEN "sleep" ELSE "send"
    /\ UNCHANGED <<snapshot, metrics_for_claude, thresholds, result, command, reply, an_copy>>
    /\ UNCHANGED <<bc_pc, bc_pending, bc_copy, bc_delivered>>
    /\ UNCHANGED <<ingestVars, dispatchVars, configVars, overrides, sessionVars>>

\* ------------------------------------------------------------ metrics_broadcast_loop
\* The 1.5 s sleep ends and broadcast_metrics starts over a copy of
\* ws_connections (with no session it returns at once).
BroadcastStart ==
    /\ bc_pc = "sleep"
    /\ ws_connections # <<>>
    /\ bc_pending' = ws_connections
    /\ bc_copy' = ws_connections
    /\ bc_delivered' = {}
    /\ bc_pc' = "send"
    /\ UNCHANGED send_failed
    /\ UNCHANGED <<ingestVars, dispatchVars, configVars, overrides, cycleVars, sessionVars>>

\* ws.send_text(msg) of line 735 on the next session of the copy: a send to
\* a session that is not open raises, and the loop passes.
BroadcastSend ==
    /\ bc_pc = "send"
    /\ LET ws == Head(bc_pending)
           ok == SendOk(conn, ws)
       IN /\ send_failed' = IF ok THEN send_failed ELSE send_failed \cup {ws}
          /\ bc_delivered' = IF ok THEN bc_delivered \cup {ws} ELSE bc_delivered
          /\ bc_pending' = RestAfterSend(bc_pending, ok)
          /\ bc_pc' = IF RestAfterSend(bc_pending, ok) = <<>> THEN "sleep" ELSE "send"
    /\ UNCHANGED bc_copy
    /\ UNCHANGED <<ingestVars, dispatchVars, configVars, overrides, cycleVars, sessionVars>>

\* ------------------------------------------------------------ websocket_endpoint
Remove(list, s) == SelectSeq(list, LAMBDA x : x # s)

\* A viewer connects: accept, ws_connections.append (lines 613-614).
Connect(s) ==
    /\ conn[s] = "new"
    /\ conn' = [conn EXCEPT ![s] = "open"]
    /\ ws_connections' = Append(ws_connections, s)
    /\ UNCHANGED <<handler, msgs, dismissed>>
    /\ UNCHANGED <<ingestVars, dispatchVars, configVars, overrides, cycleVars, broadcastVars>>

\* The peer goes away; the endpoint has not yet seen it.
PeerDrop(s) ==
    /\ conn[s] = "open"
    /\ conn' = [conn EXCEPT ![s] = "broken"]
    /\ UNCHANGED <<ws_connections, handler, msgs, dismissed>>
    /\ UNCHANGED <<ingestVars, dispatchVars, configVars, overrides, cycleVars, broadcastVars>>

\* receive_text raises WebSocketDisconnect; the finally clause removes the
\* session (lines 664-668).
EndpointClose(s) ==
    /\ conn[s] = "broken"
    /\ handler[s].op = "idle"
    /\ conn' = [conn EXCEPT ![s] = "closed"]
    /\ ws_connections' = Remove(ws_connections, s)
    /\ UNCHANGED <<handler, msgs, dismissed>>
    /\ UNCHANGED <<ingestVars, dispatchVars, configVars, overrides, cycleVars, broadcastVars>>

\* The commands viewers send with apply_fix.
ViewerCommands ==
    { ThrottleCommand(1, 3),
      KillCommand(1),
      <<Word("throttle"), Word("abc"), FloatLit(3)>>,
      <<Word("reboot")>> }
\* The names viewers send with dismiss_anomaly.
DismissNames == {<<>>, NameNg}

\* lines 627-648: the call of record_override that a command leads to, None
\* when it leads to none (another verb, or int()/float() raises ValueError)
OverrideCallOf(cmd) ==
    IF cmd[1] = Word("throttle") /\ Len(cmd) >= 3
    THEN IF cmd[2].k = "int" /\ Len(cmd) = 3 /\ cmd[3].k \in {"int", "float"}
         THEN Some([pid |-> cmd[2].n, throttle |-> Some(cmd[3].n), action |-> "throttle"])
         ELSE None
    ELSE IF cmd[1] = Word("kill") /\ Len(cmd) >= 2
    THEN IF cmd[2].k = "int" /\ Len(cmd) = 2
         THEN Some([pid |-> cmd[2].n, throttle |-> None, action |-> "kill"])
         ELSE None
    ELSE None

\* apply_fix is received and the command is published as it came (lines
\* 624-626); a command that names an override goes on to record it.
RecvApplyFix(s) ==
    /\ conn[s] = "open"
    /\ handler[s].op = "idle"
    /\ msgs < MaxViewerMsgs
    /\ msgs' = msgs + 1
    /\ \E cmd \in ViewerCommands :
          /\ channel' = Published(cmd, "viewer")
          /\ handler' = [handler EXCEPT ![s] =
                IF OverrideCallOf(cmd) = None THEN IdleHandler
                ELSE [op |-> "override_hget",
                      pid |-> Val(OverrideCallOf(cmd)).pid,
                      name |-> <<>>,
                      throttle |-> Val(OverrideCallOf(cmd)).throttle,
                      action |-> Val(OverrideCallOf(cmd)).action,
                      existing |-> None]]
    /\ UNCHANGED <<now, last_auto_fix, auto_published>>
    /\ UNCHANGED <<ws_connections, conn, dismissed>>
    /\ UNCHANGED <<ingestVars, configVars, overrides, cycleVars, broadcastVars>>

\* lines 632-635: the last non-empty name of pid in the buffer
RECURSIVE NameInBuffer(_, _, _)
NameInBuffer(buf, pid, name) ==
    IF buf = <<>> THEN name
    ELSE NameInBuffer(Tail(buf), pid,
            IF Head(buf).pid = pid /\ Head(buf).name # <<>> THEN Head(buf).name ELSE name)

\* m.get on a buffer entry that is no dict raises AttributeError
LookupRaises(buf) == \E i \in 1..Len(buf) : buf[i].kind # "obj"

\* publish has returned; the name is looked up in the buffer and
\* record_override reads the existing record (line 107).
HandlerOverrideRead(s) ==
    /\ handler[s].op = "override_hget"
    /\ ~LookupRaises(metrics_buffer)
    /\ handler' = [handler EXCEPT ![s] =
          [@ EXCEPT !.op = "override_hset",
                    !.name = NameInBuffer(metrics_buffer, handler[s].pid, <<>>),
                    !.existing = GetOverride(overrides, handler[s].pid)]]
    /\ UNCHANGED <<ws_connections, conn, msgs, dismissed>>
    /\ UNCHANGED <<ingestVars, dispatchVars, configVars, overrides, cycleVars, broadcastVars>>

\* record_override writes the record back (line 116).
HandlerOverrideWrite(s) ==
    /\ handler[s].op = "override_hset"
    /\ overrides' = [overrides EXCEPT ![handler[s].pid] =
          Some(OverrideWritten(handler[s].existing, handler[s].name,
                               handler[s].throttle, handler[s].action))]
    /\ handler' = [handler EXCEPT ![s] = IdleHandler]
    /\ UNCHANGED <<ws_connections, conn, msgs, dismissed>>
    /\ UNCHANGED <<ingestVars, dispatchVars, configVars, cycleVars, broadcastVars>>

\* dismiss_anomaly is received and record_dismiss reads the existing
\* record (lines 649-653, 128).
RecvDismiss(s) ==
    /\ conn[s] = "open"
    /\ handler[s].op = "idle"
    /\ msgs < MaxViewerMsgs
    /\ msgs' = msgs + 1
    /\ \E pid \in Pids, name \in DismissNames :
          handler' = [handler EXCEPT ![s] =
              [op |-> "dismiss_hset", pid |-> pid, name |-> name, throttle |-> None,
               action |-> "", existing |-> GetOverride(overrides, pid)]]
    /\ UNCHANGED <<ws_connections, conn, dismissed>>
    /\ UNCHANGED <<ingestVars, dispatchVars, configVars, overrides, cycleVars, broadcastVars>>

\* Mutant of HandlerDismissWrite: the dismiss also clears the pid's entry
\* of the cooldown map.
HandlerDismissWriteRetracts(s) ==
    /\ handler[s].op = "dismiss_hset"
    /\ overrides' = [overrides EXCEPT ![handler[s].pid] =
          Some(DismissWritten(handler[s].existing, handler[s].name))]
    /\ dismissed' = [dismissed EXCEPT ![handler[s].pid] = @ + 1]
    /\ handler' = [handler EXCEPT ![s] = IdleHandler]
    /\ last_auto_fix' = [last_auto_fix EXCEPT ![handler[s].pid] = None]
    /\ UNCHANGED <<now, channel, auto_published>>
    /\ UNCHANGED <<ws_connections, conn, msgs>>
    /\ UNCHANGED <<ingestVars, configVars, cycleVars, broadcastVars>>

\* record_dismiss writes the record back (line 136); the handler is done.
HandlerDismissWrite(s) ==
    /\ handler[s].op = "dismiss_hset"
    /\ overrides' = [overrides EXCEPT ![handler[s].pid] =
          Some(DismissWritten(handler[s].existing, handler[s].name))]
    /\ dismissed' = [dismissed EXCEPT ![handler[s].pid] = @ + 1]
    /\ handler' = [handler EXCEPT ![s] = IdleHandler]
    /\ UNCHANGED <<ws_connections, conn, msgs>>
    /\ UNCHANGED <<ingestVars, dispatchVars, configVars, cycleVars, broadcastVars>>

\* Something in the handler raises what the endpoint does not catch (a Redis
\* I/O error of hget or hset, the AttributeError of the name lookup): the
\* endpoint ends and its finally clause removes the session.
HandlerRaises(s) ==
    /\ \/ handler[s].op \in {"override_hset", "dismiss_hset"}
       \/ handler[s].op = "override_hget"
    /\ handler' = [handler EXCEPT ![s] = IdleHandler]
    /\ conn' = [conn EXCEPT ![s] = "closed"]
    /\ ws_connections' = Remove(ws_connections, s)
    /\ UNCHANGED <<msgs, dismissed>>
    /\ UNCHANGED <<ingestVars, dispatchVars, configVars, overrides, cycleVars, broadcastVars>>

\* ------------------------------------------------------------ the pipeline
\* The monotonic clock at process start: just booted, or long after boot.
StartTimes == {0, 10 * ANALYZE_INTERVAL_SEC}
\* The ledger outlives the process: it starts empty, or with a record of a
\* process that was throttled by hand and dismissed twice.
InitialLedgers ==
    { [p \in Pids |-> None],
      [p \in Pids |-> IF p = 1 THEN Some(OverrideRecord(Some(3), Some("throttle"), NameAb, Some(2)))
                      ELSE None] }

Init ==
    /\ IngestIdle
    /\ now \in StartTimes
    /\ DispatchIdle
    /\ api_key \in BOOLEAN
    /\ ctx_store = DefaultContext
    /\ redis_context = EmptyStore
    /\ body = None
    /\ overrides \in InitialLedgers
    /\ analysis_pc = "sleep"
    /\ CycleIdle
    /\ SessionsIdle
    /\ BroadcastIdle

\* One viewer session takes part in the pipeline specification.
PipelineSessions == {1}

Analysis ==
    \/ AnalysisWake
    \/ AnalysisContextRead
    \/ AnalysisBuildRaises
    \/ AnalysisModelReturns
    \/ AnalysisPublish
    \/ AnalysisOverrideRead
    \/ AnalysisStoreError
    \/ AnalysisSend

\* The pipeline: the producer, the consumer, the analysis loop, and a
\* viewer session that connects, goes away and is closed.
Next ==
    \/ XAdd
    \/ ConsumerPoll
    \/ Analysis
    \/ \E s \in PipelineSessions : Connect(s) \/ PeerDrop(s) \/ EndpointClose(s)

Spec == Init /\ [][Next]_vars

\* ------------------------------------------------------------ specifications on a loaded buffer
\* The consumer has read a stream of samples into the buffer.
IngestLoaded(samples) ==
    /\ stream = samples
    /\ last_id = Len(samples)
    /\ consumer_pc = "poll"
    /\ metrics_buffer = samples

\* No key is set and every buffer entry is a dict, so the model is never
\* called and the selector never raises: these are the steps of the
\* analysis loop that can be taken.
RuleAnalysis ==
    \/ AnalysisWake
    \/ AnalysisContextRead
    \/ AnalysisPublish
    \/ AnalysisOverrideRead
    \/ AnalysisStoreError
    \/ AnalysisSend

\* The ledger: the message handlers of two viewer sessions, nothing else
\* running.
InitLedger ==
    /\ \E samples \in {<<>>, <<HotCpu>>} : IngestLoaded(samples)
    /\ now = 0
    /\ DispatchIdle
    /\ api_key = FALSE
    /\ ctx_store = DefaultContext
    /\ redis_context = EmptyStore
    /\ body = None
    /\ overrides \in InitialLedgers
    /\ analysis_pc = "sleep"
    /\ CycleIdle
    /\ SessionsIdle
    /\ BroadcastIdle

Viewers ==
    \E s \in Sessions :
        \/ Connect(s)
        \/ PeerDrop(s)
        \/ EndpointClose(s)
        \/ RecvApplyFix(s)
        \/ HandlerOverrideRead(s)
        \/ HandlerOverrideWrite(s)
        \/ RecvDismiss(s)
        \/ HandlerDismissWrite(s)
        \/ HandlerRaises(s)

NextLedger == Viewers

SpecLedger == InitLedger /\ [][NextLedger]_vars

\* Enrichment: the analysis loop on a buffer with the two hot processes,
\* while two viewer sessions dismiss alerts.
InitEnrich ==
    /\ IngestLoaded(<<HotCpu, HotMem>>)
    /\ now \in StartTimes
    /\ DispatchIdle
    /\ api_key = FALSE
    /\ ctx_store = DefaultContext
    /\ redis_context = EmptyStore
    /\ body = None
    /\ overrides \in InitialLedgers
    /\ analysis_pc = "sleep"
    /\ CycleIdle
    /\ SessionsIdle
    /\ BroadcastIdle

NextEnrich ==
    \/ RuleAnalysis
    \/ \E s \in Sessions : Connect(s) \/ RecvDismiss(s) \/ HandlerDismissWrite(s)

SpecEnrich == InitEnrich /\ [][NextEnrich]_vars

\* The hub: two viewer sessions that connect, go away and are closed, the
\* metrics broadcast and the analysis loop with its anomaly broadcast.
InitHub ==
    /\ IngestLoaded(<<HotCpu>>)
    /\ now \in StartTimes
    /\ DispatchIdle
    /\ api_key = FALSE
    /\ ctx_store = DefaultContext
    /\ redis_context = EmptyStore
    /\ body = None
    /\ overrides = [p \in Pids |-> None]
    /\ analysis_pc = "sleep"
    /\ CycleIdle
    /\ SessionsIdle
    /\ BroadcastIdle

NextHub ==
    \/ RuleAnalysis
    \/ BroadcastStart
    \/ BroadcastSend
    \/ \E s \in Sessions : Connect(s) \/ PeerDrop(s) \/ EndpointClose(s)

SpecHub == InitHub /\ [][NextHub]_vars

\* ------------------------------------------------------------ buffer specification
\* The consumer alone, on a preloaded log of any length up to MaxLog.
InitBuffer ==
    /\ stream \in {LogOfLength(n) : n \in 0..MaxLog}
    /\ last_id = 0
    /\ consumer_pc = "poll"
    /\ metrics_buffer = <<>>
    /\ now = 0
    /\ DispatchIdle
    /\ api_key = FALSE
    /\ ctx_store = DefaultContext
    /\ redis_context = EmptyStore
    /\ body = None
    /\ overrides = [p \in Pids |-> None]
    /\ analysis_pc = "sleep"
    /\ CycleIdle
    /\ SessionsIdle
    /\ BroadcastIdle

NextBuffer == ConsumerPoll \/ ConsumerFail \/ ConsumerRetry

SpecBuffer == InitBuffer /\ [][NextBuffer]_vars

\* The values appended so far: the decodable payloads among the entries
\* the cursor has passed, in arrival order.
AppendedSoFar == SelectSeq(SubSeq(stream, 1, last_id), JsonDecodes)

\* C5: the buffer never holds more than 500 entries, and it holds exactly
\* the last min(k, 500) of the k samples appended so far, in arrival order.
C5_BufferIsLastAppended ==
    /\ Len(metrics_buffer) <= BUFFER_MAX_ITEMS
    /\ metrics_buffer = LastN(AppendedSoFar, Min2(Len(AppendedSoFar), BUFFER_MAX_ITEMS))

\* C5 witness: 600 samples or more were appended, the oldest were evicted.
C5_Witness ==
    /\ Len(AppendedSoFar) >= BUFFER_MAX_ITEMS + 100
    /\ Len(metrics_buffer) = BUFFER_MAX_ITEMS
    /\ last_id = Len(stream)

\* ------------------------------------------------------------ detector specification
\* _rule_based_anomaly on its own: every candidate list up to MaxCandidates
\* entries that is sorted by cpu_percent descending, as the selector
\* returns it, and every pair of thresholds of RuleThresholds.
RuleCpuValues == {5, 90, 95}
RuleMemValues == {200, 1500, 1800}
RuleThresholds == {[cpu_percent |-> 90, mem_mb |-> 1500],
                   [cpu_percent |-> 95, mem_mb |-> 200],
                   [cpu_percent |-> 5, mem_mb |-> 1800]}

IsCpuSorted(metrics) ==
    \A i \in 1..(Len(metrics) - 1) : metrics[i].cpu_percent >= metrics[i + 1].cpu_percent

RuleInputs ==
    UNION { { m \in [1..n -> {Sample(0, <<>>, c, mm) : c \in RuleCpuValues, mm \in RuleMemValues}] :
                IsCpuSorted(m) } : n \in 0..MaxCandidates }

\* candidate i gets pid i
WithPids(m) == [i \in 1..Len(m) |-> Sample(i, m[i].name, m[i].cpu_percent, m[i].mem_mb)]

InitRule ==
    /\ IngestIdle
    /\ now = 0
    /\ DispatchIdle
    /\ api_key = FALSE
    /\ ctx_store = DefaultContext
    /\ redis_context = EmptyStore
    /\ body = None
    /\ overrides = [p \in Pids |-> None]
    /\ analysis_pc = "rule_input"
    /\ snapshot = <<>>
    /\ metrics_for_claude \in {WithPids(m) : m \in RuleInputs}
    /\ thresholds \in RuleThresholds
    /\ result = None
    /\ command = None
    /\ reply = CallError
    /\ an_pending = <<>>
    /\ an_copy = <<>>
    /\ an_delivered = {}
    /\ SessionsIdle
    /\ BroadcastIdle

\* result = _rule_based_anomaly(metrics, cpu_threshold, mem_threshold_mb)
RuleApply ==
    /\ analysis_pc = "rule_input"
    /\ analysis_pc' = "rule_done"
    /\ result' = RuleBasedAnomaly(metrics_for_claude, thresholds)
    /\ UNCHANGED <<snapshot, metrics_for_claude, thresholds, command, reply, an_pending, an_copy, an_delivered>>
    /\ UNCHANGED <<ingestVars, dispatchVars, configVars, overrides, sessionVars, broadcastVars>>

NextRule == RuleApply

SpecRule == InitRule /\ [][NextRule]_vars

\* The two-pass reference: the first candidate over the cpu threshold, else
\* the first over the memory threshold, else none.
FirstIndex(metrics, Test(_)) ==
    IF \E i \in 1..Len(metrics) : Test(metrics[i])
    THEN CHOOSE i \in 1..Len(metrics) :
            Test(metrics[i]) /\ \A j \in 1..(i - 1) : ~Test(metrics[j])
    ELSE 0

TwoPassReference(metrics, th) ==
    LET c == FirstIndex(metrics, LAMBDA m : m.cpu_percent > th.cpu_percent)
        mm == FirstIndex(metrics, LAMBDA m : m.mem_mb > th.mem_mb)
    IN IF c > 0 THEN <<"cpu", metrics[c].pid>>
       ELSE IF mm > 0 THEN <<"mem", metrics[mm].pid>>
       ELSE <<"none", 0>>

\* what the detector returned, in the same form
RuleOutcome(r) == IF r = None THEN <<"none", 0>> ELSE <<Val(r).reasoning_trace, Val(r).target_pid>>

\* C3: on every cpu-sorted candidate list and every pair of thresholds the
\* rule-based detector returns what the two-pass reference returns, and a
\* returned result suggests "Throttle CPU" with throttle_value 0.5.
C3_RuleMatchesTwoPass ==
    analysis_pc = "rule_done" =>
        /\ RuleOutcome(result) = TwoPassReference(metrics_for_claude, thresholds)
        /\ result # None =>
              /\ Val(result).suggested_action = "Throttle CPU"
              /\ Val(result).throttle_value = Some(DEFAULT_THROTTLE_VALUE)

\* C3 witness: the memory rule returns a candidate that is not the first of
\* the list, after a first candidate that sits exactly on the cpu threshold.
C3_Witness ==
    /\ analysis_pc = "rule_done"
    /\ result # None
    /\ Val(result).reasoning_trace = "mem"
    /\ Val(result).target_pid # metrics_for_claude[1].pid
    /\ metrics_for_claude[1].cpu_percent = thresholds.cpu_percent

\* ------------------------------------------------------------ the detection step on its own
\* Lines 317-391 with a key set: every reply of ModelReplies on every
\* candidate list and pair of thresholds of the rule-based specification.
InitDetect ==
    /\ IngestIdle
    /\ now = 0
    /\ DispatchIdle
    /\ api_key = TRUE
    /\ ctx_store = DefaultContext
    /\ redis_context = EmptyStore
    /\ body = None
    /\ overrides = [p \in Pids |-> None]
    /\ analysis_pc = "detect_input"
    /\ snapshot = <<>>
    /\ metrics_for_claude \in {WithPids(m) : m \in RuleInputs \ {<<>>}}
    /\ thresholds \in RuleThresholds
    /\ result = None
    /\ command = None
    /\ reply \in ModelReplies
    /\ an_pending = <<>>
    /\ an_copy = <<>>
    /\ an_delivered = {}
    /\ SessionsIdle
    /\ BroadcastIdle

\* the detection step leaves its result
DetectApply ==
    /\ analysis_pc = "detect_input"
    /\ analysis_pc' = "detect_done"
    /\ result' = Detect(api_key, reply, metrics_for_claude, thresholds)
    /\ UNCHANGED <<snapshot, metrics_for_claude, thresholds, command, reply, an_pending, an_copy, an_delivered>>
    /\ UNCHANGED <<ingestVars, dispatchVars, configVars, overrides, sessionVars, broadcastVars>>

NextDetect == DetectApply

SpecDetect == InitDetect /\ [][NextDetect]_vars

\* A reply the claim counts as a failure of the model: the call failed, the
\* text holds no JSON object that decodes, or the object does not flag an
\* anomaly with a numeric target pid.
FailedReply(answer) ==
    \/ answer.failed
    \/ ParseClaudeJson(answer.text).kind # "dict"
    \/ ~ParseClaudeJson(answer.text).fields.anomaly
    \/ ParseClaudeJson(answer.text).fields.target_pid = None
    \/ ~Val(ParseClaudeJson(answer.text).fields.target_pid).num

\* C4 as claimed: with the model-backed detector, any call error, timeout
\* or unparseable or invalid response leaves the result of the rule-based
\* detector on the same candidates and thresholds.
C4_FailureFallsBackToRules ==
    (analysis_pc = "detect_done" /\ FailedReply(reply)) =>
        result = RuleBasedAnomaly(metrics_for_claude, thresholds)

\* ------------------------------------------------------------ cooldown
\* the pid and action of the running cycle's result
ResultPid == Val(result).target_pid
Dispatchable(r) == r.suggested_action \in {"Throttle CPU", "Kill"}

\* C1: once an auto-fix was published for a pid, at any clock value less
\* than 60 seconds later no command for that pid is about to be published
\* and a result for that pid carries auto_fix_applied = false.
C1_CooldownBlocksRepeat ==
    \A p \in TargetPids :
        (/\ auto_published[p] # None
         /\ now > Val(auto_published[p])
         /\ now - Val(auto_published[p]) < AUTO_FIX_COOLDOWN_SEC
         /\ result # None
         /\ ResultPid = p)
        => /\ analysis_pc # "publish"
           /\ command = None
           /\ ~Val(result).auto_fix_applied

\* C1 witness: a cycle less than 60 seconds after a published auto-fix has
\* returned a result for the same pid, not applied.
C1_Witness ==
    /\ analysis_pc \in {"send", "sleep"}
    /\ result # None
    /\ auto_published[ResultPid] # None
    /\ now > Val(auto_published[ResultPid])
    /\ now - Val(auto_published[ResultPid]) < AUTO_FIX_COOLDOWN_SEC
    /\ ~Val(result).auto_fix_applied
    /\ Dispatchable(Val(result))

\* C2 as claimed: a Throttle or Kill result for a pid without an entry in the
\* cooldown map is dispatched whatever the clock reads, so past the
\* dispatch step such a result is applied and its pid has an entry.
C2_IdlePidIsDispatched ==
    (/\ analysis_pc \in {"get_override", "send", "sleep"}
     /\ result # None
     /\ Dispatchable(Val(result)))
    => last_auto_fix[ResultPid] # None

\* C9 as claimed: an I/O error of a store operation of the cycle does not
\* end the analysis loop.
C9_StoreErrorNotFatal == analysis_pc # "crashed_io"

\* ------------------------------------------------------------ ledger
\* dismiss_count of a pid's record, 0 without one
StoredDismissCount(ledger, p) ==
    IF GetOverride(ledger, p) = None THEN 0 ELSE DismissCountOf(Val(GetOverride(ledger, p)))

\* C6 as claimed: dismiss_count of a pid's record never decreases, however
\* the handlers of the sessions interleave.
C6_DismissCountMonotone ==
    [][\A p \in Pids : StoredDismissCount(overrides', p) >= StoredDismissCount(overrides, p)]_vars

\* C7 as claimed: pid 2 starts without a record; once every handler is
\* done its dismiss_count is the number of dismiss events handled.
C7_DismissCountExact ==
    (\A s \in Sessions : handler[s].op = "idle") =>
        StoredDismissCount(overrides, 2) = dismissed[2]

\* C8: in the step that enriches and returns a result, suggest_reduce_alerts
\* is set if and only if the record of the target pid holds a dismiss_count
\* of 3 or more (no record, or a smaller count: not set).
C8_SuggestIffThreeDismisses ==
    [][(analysis_pc = "get_override" /\ analysis_pc' \in {"send", "sleep"}) =>
          (Val(result').suggest_reduce_alerts
             <=> StoredDismissCount(overrides, Val(result').target_pid) >= DISMISS_SUGGEST_THRESHOLD)]_vars

\* C8 witness: a result was returned with the flag set, for a pid that a
\* viewer dismissed during this run, with the count exactly at 3.
C8_Witness ==
    /\ analysis_pc \in {"send", "sleep"}
    /\ result # None
    /\ Val(result).suggest_reduce_alerts
    /\ Val(result).dismiss_count = Some(DISMISS_SUGGEST_THRESHOLD)
    /\ dismissed[ResultPid] >= 1

\* ------------------------------------------------------------ hub
InList(list, s) == \E i \in 1..Len(list) : list[i] = s

\* C10 as claimed: a session whose send failed during a broadcast is no
\* longer in the live connection set.
C10_FailedSessionEvicted ==
    \A s \in send_failed : ~InList(ws_connections, s)

\* The sessions of a broadcast's copy that the loop is done with.
Attempted(copy, pending) ==
    {s \in Sessions : InList(copy, s) /\ ~InList(pending, s)}

\* C11: in a metrics broadcast and in an anomaly broadcast, every session of
\* the copy taken at the start that the loop is done with has either
\* received the message or had its own send fail; a failure on another
\* session never leaves it out.
C11_FailureDoesNotBlockOthers ==
    /\ \A s \in Attempted(bc_copy, bc_pending) : s \in bc_delivered \/ s \in send_failed
    /\ \A s \in Attempted(an_copy, an_pending) : s \in an_delivered \/ s \in send_failed

\* C11 witness: a metrics broadcast over two sessions is complete; the send
\* to the first one failed and the second one received the message.
C11_Witness ==
    /\ bc_pc = "sleep"
    /\ Len(bc_copy) = 2
    /\ bc_copy[1] \in send_failed
    /\ bc_copy[1] \notin bc_delivered
    /\ bc_copy[2] \in bc_delivered

\* ------------------------------------------------------------ selector specification
\* build_metrics_for_analysis on its own, on snapshots and contexts as the
\* loop hands them over: short snapshots with a repeated pid, a tie on
\* cpu_percent and names in mixed case, and logs of distinct pids that are
\* longer than the window and longer than the candidate list.
TieCpu == Sample(3, <<"a", "b", "c">>, 95, 100)
SelectSamples == {HotCpu, Quiet, HotMem, TieCpu}
ShortSnapshots == UNION {[1..n -> SelectSamples] : n \in 0..3}

\* record i of a long log: pid i, cpu_percent in no particular order
LongRecord(i) == Sample(i, <<>>, (i * 7) % 20, i)
LongSnapshots == {[i \in 1..n |-> LongRecord(i)] : n \in {7, 8, MaxSnapshot}}

SelectIgnores == {{}, {<<"A", "b">>}, {<<"2">>}, {<<>>}}
SelectWatches == {{}, {<<"a", "b">>}, {<<" ", "N", "G">>}, {<<"3">>}}
SelectWindows == {0, 2, 3, 10, 11, 60}
SelectContexts ==
    {[watch |-> w, ignore |-> ig, thresholds |-> DefaultThresholds, time_window_sec |-> tw] :
        w \in SelectWatches, ig \in SelectIgnores, tw \in SelectWindows}

InitSelect ==
    /\ IngestIdle
    /\ now = 0
    /\ DispatchIdle
    /\ api_key = FALSE
    /\ ctx_store \in SelectContexts
    /\ redis_context = EmptyStore
    /\ body = None
    /\ overrides = [p \in Pids |-> None]
    /\ analysis_pc = "select_input"
    /\ snapshot \in ShortSnapshots \cup LongSnapshots
    /\ metrics_for_claude = <<>>
    /\ thresholds = DefaultThresholds
    /\ result = None
    /\ command = None
    /\ reply = CallError
    /\ an_pending = <<>>
    /\ an_copy = <<>>
    /\ an_delivered = {}
    /\ SessionsIdle
    /\ BroadcastIdle

\* metrics_for_claude = build_metrics_for_analysis(snapshot, context)
SelectApply ==
    /\ analysis_pc = "select_input"
    /\ analysis_pc' = "select_done"
    /\ metrics_for_claude' = BuildMetricsForAnalysis(snapshot, ctx_store)
    /\ UNCHANGED <<snapshot, thresholds, result, command, reply, an_pending, an_copy, an_delivered>>
    /\ UNCHANGED <<ingestVars, dispatchVars, configVars, overrides, sessionVars, broadcastVars>>

NextSelect == SelectApply

SpecSelect == InitSelect /\ [][NextSelect]_vars

\* ------------------------------------------------------------ command channel
\* throttle:<pid>:<value> or kill:<pid> with an integer pid
WellFormedCommand(cmd) ==
    \/ /\ Len(cmd) = 3
       /\ cmd[1] = Word("throttle")
       /\ cmd[2].k = "int"
       /\ cmd[3].k \in {"int", "float"}
    \/ /\ Len(cmd) = 2
       /\ cmd[1] = Word("kill")
       /\ cmd[2].k = "int"

\* C12 as claimed: whatever is on the command channel, published by the
\* auto-remediation or for a viewer's apply_fix, is throttle:<pid>:<value>
\* or kill:<pid> with an integer pid.
C12_CommandsWellFormed ==
    channel # None => WellFormedCommand(Val(channel).command)

\* ------------------------------------------------------------ selector claims
\* The window the selector looks at, and in it the latest sample of each pid.
SelectedWindow == Recent(snapshot, ctx_store)
LatestPerPid ==
    {SelectedWindow[i] : i \in {j \in 1..Len(SelectedWindow) :
        \A k \in (j + 1)..Len(SelectedWindow) : SelectedWindow[k].pid # SelectedWindow[j].pid}}

\* A sample matches an ignore entry: its lowercase name contains the entry,
\* or its pid string equals it, case-insensitive.
MatchesIgnore(v) ==
    \E e \in ctx_store.ignore : Contains(Lower(e), Lower(v.name)) \/ Lower(e) = PidStr(v.pid)

\* A sample matches a watch entry: the entry, without surrounding blanks,
\* is (a substring of) the lowercase name or equals the pid string.
MatchesWatch(v) ==
    \E e \in ctx_store.watch :
        /\ e # <<>>
        /\ \/ Contains(Strip(Lower(e)), Lower(v.name))
           \/ Strip(Lower(e)) = PidStr(v.pid)

C15_LatestSamplePerPid ==
    analysis_pc = "select_done" =>
        /\ \A i, j \in 1..Len(metrics_for_claude) :
              metrics_for_claude[i].pid = metrics_for_claude[j].pid => i = j
        /\ \A i \in 1..Len(metrics_for_claude) :
              \E k \in 1..Len(SelectedWindow) :
                  /\ SelectedWindow[k] = metrics_for_claude[i]
                  /\ \A l \in (k + 1)..Len(SelectedWindow) :
                        SelectedWindow[l].pid # metrics_for_claude[i].pid

\* C15 witness: the window holds two different samples of one pid and the
\* candidate of that pid is the later one.
C15_Witness ==
    /\ analysis_pc = "select_done"
    /\ Len(SelectedWindow) >= 2
    /\ \E k \in 1..(Len(SelectedWindow) - 1) :
          /\ SelectedWindow[k].pid = SelectedWindow[Len(SelectedWindow)].pid
          /\ SelectedWindow[k] # SelectedWindow[Len(SelectedWindow)]
          /\ InList(metrics_for_claude, SelectedWindow[Len(SelectedWindow)])
          /\ ~InList(metrics_for_claude, SelectedWindow[k])

\* ------------------------------------------------------------ poison specification
\* The consumer on every log of up to MaxPoisonLog records, each a sample,
\* text that is no JSON, bytes that are no UTF-8, or an entry without data.
\* A transient xread failure does not go on for ever: an xread that can
\* return entries infinitely often does so, and the one-second sleep ends.
RecordKinds == {"obj", "poison", "badutf8", "nodata"}
\* record i of a log of the given kinds; a sample carries its position as pid
PoisonLog(kinds) == [i \in 1..Len(kinds) |-> Payload(kinds[i], i, <<>>, i, i)]
PoisonLogs == {PoisonLog(k) : k \in UNION {[1..n -> RecordKinds] : n \in 0..MaxPoisonLog}}

InitPoison ==
    /\ stream \in PoisonLogs
    /\ last_id = 0
    /\ consumer_pc = "poll"
    /\ metrics_buffer = <<>>
    /\ now = 0
    /\ DispatchIdle
    /\ api_key = FALSE
    /\ ctx_store = DefaultContext
    /\ redis_context = EmptyStore
    /\ body = None
    /\ overrides = [p \in Pids |-> None]
    /\ analysis_pc = "sleep"
    /\ CycleIdle
    /\ SessionsIdle
    /\ BroadcastIdle

NextPoison == ConsumerPoll \/ ConsumerFail \/ ConsumerRetry

SpecPoison == InitPoison /\ [][NextPoison]_vars
                /\ SF_vars(ConsumerPoll) /\ WF_vars(ConsumerRetry)

\* C16: a record whose payload does not decode is never in the buffer, and
\* eventually the cursor is past every record of the log and every valid
\* record, those behind a poison record included, is in the buffer.
C16_PoisonNeverStalls ==
    /\ [](\A i \in 1..Len(stream) : ~JsonDecodes(stream[i]) => ~InList(metrics_buffer, stream[i]))
    /\ <>[](/\ last_id = Len(stream)
            /\ \A i \in 1..Len(stream) : JsonDecodes(stream[i]) => InList(metrics_buffer, stream[i]))

\* C16 witness: the log holds a sample behind text that is no JSON and a
\* sample behind bytes that are no UTF-8; the cursor is past the whole log
\* and both samples are in the buffer.
C16_Witness ==
    /\ last_id = Len(stream)
    /\ \E i, j \in 1..Len(stream) :
          /\ i < j
          /\ stream[i].kind = "poison"
          /\ stream[j].kind = "obj"
          /\ InList(metrics_buffer, stream[j])
    /\ \E i, j \in 1..Len(stream) :
          /\ i < j
          /\ stream[i].kind = "badutf8"
          /\ stream[j].kind = "obj"
          /\ InList(metrics_buffer, stream[j])

\* ------------------------------------------------------------ context store
\* int(str) for a string of decimal digits
RECURSIVE IntOfStr(_)
IntOfStr(str) ==
    IF str = <<>> THEN 0
    ELSE 10 * IntOfStr(SubSeq(str, 1, Len(str) - 1))
           + (CHOOSE d \in 0..9 : DigitChars[d + 1] = str[Len(str)])

\* Mutant of ClampWindow: the lower bound is half of what it is.
ClampWindowLow(tw) == Max2(5, Min2(600, tw))

\* max(10, min(600, int(body["time_window_sec"]))) of line 166
ClampWindow(tw) == Max2(10, Min2(600, tw))

\* lines 158-163: the thresholds object written, a missing key taking its
\* default, cpu_percent clamped to [0, 100] and mem_mb to >= 0
ThresholdsWritten(t) ==
    LET cpu == IF t.cpu_percent = None THEN DEFAULT_CPU_THRESHOLD ELSE Val(t.cpu_percent)
        mem == IF t.mem_mb = None THEN DEFAULT_MEM_THRESHOLD_MB ELSE Val(t.mem_mb)
    IN [cpu_percent |-> Max2(0, Min2(100, cpu)), mem_mb |-> Max2(0, mem)]

\* set_context(redis_client, body): a key of the body that is there is
\* written, the others stay; time_window_sec is stored as str(tw).
SetContext(store, b) ==
    [watch |-> IF b.watch = None THEN store.watch ELSE b.watch,
     ignore |-> IF b.ignore = None THEN store.ignore ELSE b.ignore,
     thresholds |-> IF b.thresholds = None THEN store.thresholds
                    ELSE Some(ThresholdsWritten(Val(b.thresholds))),
     time_window_sec |-> IF b.time_window_sec = None THEN store.time_window_sec
                         ELSE Some(PidStr(ClampWindow(Val(b.time_window_sec))))]

\* get_context(redis_client): the defaults, each replaced by what is stored
\* under its key; time_window_sec is int(float(text)).
GetContext(store) ==
    [watch |-> IF store.watch = None THEN {} ELSE Val(store.watch),
     ignore |-> IF store.ignore = None THEN {} ELSE Val(store.ignore),
     thresholds |-> IF store.thresholds = None THEN DefaultThresholds ELSE Val(store.thresholds),
     time_window_sec |-> IF store.time_window_sec = None THEN DEFAULT_TIME_WINDOW_SEC
                         ELSE IntOfStr(Val(store.time_window_sec))]

\* The bodies a client puts: each key there or not, values inside and
\* outside their ranges.
BodyThresholds ==
    {[cpu_percent |-> c, mem_mb |-> m] : c \in {None, Some(0 - 5), Some(80), Some(150)},
                                        m \in {Some(0 - 1), Some(1000)}}
Bodies ==
    {[watch |-> w, ignore |-> ig, thresholds |-> t, time_window_sec |-> tw] :
        w \in {None, Some({}), Some({NameAb})},
        ig \in {None, Some({NameNg})},
        t \in {None} \cup {Some(x) : x \in BodyThresholds},
        tw \in {None, Some(5), Some(30), Some(601)}}

\* PUT /api/context by a client that has read the context since its last
\* write.
ApiPutContext ==
    /\ ctx_store = GetContext(redis_context)
    /\ \E b \in Bodies :
          /\ redis_context' = SetContext(redis_context, b)
          /\ body' = Some(b)
    /\ UNCHANGED <<api_key, ctx_store>>
    /\ UNCHANGED <<ingestVars, dispatchVars, overrides, cycleVars, sessionVars, broadcastVars>>

\* GET /api/context
ApiGetContext ==
    /\ ctx_store' = GetContext(redis_context)
    /\ UNCHANGED <<api_key, redis_context, body>>
    /\ UNCHANGED <<ingestVars, dispatchVars, overrides, cycleVars, sessionVars, broadcastVars>>

InitContext ==
    /\ IngestIdle
    /\ now = 0
    /\ DispatchIdle
    /\ api_key = FALSE
    /\ ctx_store = DefaultContext
    /\ redis_context = EmptyStore
    /\ body = None
    /\ overrides = [p \in Pids |-> None]
    /\ analysis_pc = "sleep"
    /\ CycleIdle
    /\ SessionsIdle
    /\ BroadcastIdle

NextContext == ApiPutContext \/ ApiGetContext

SpecContext == InitContext /\ [][NextContext]_vars

\* The context in hand is what a read of the store returns now.
ContextFresh == ctx_store = GetContext(redis_context)

\* C17: a context read after a write returns the written watch list as it
\* was written, written thresholds that are in range as they were written
\* and any written thresholds with cpu_percent in [0, 100] and mem_mb >= 0,
\* a written time_window_sec in [10, 600] as it was written and one
\* outside clamped to the nearer bound.
C17_ContextRoundTrip ==
    (body # None /\ ContextFresh) =>
        LET b == Val(body)
        IN /\ b.watch # None => ctx_store.watch = Val(b.watch)
           /\ b.thresholds # None =>
                 LET t == Val(b.thresholds)
                 IN /\ ctx_store.thresholds.cpu_percent \in 0..100
                    /\ ctx_store.thresholds.mem_mb >= 0
                    /\ (t.cpu_percent # None /\ Val(t.cpu_percent) \in 0..100)
                           => ctx_store.thresholds.cpu_percent = Val(t.cpu_percent)
                    /\ (t.mem_mb # None /\ Val(t.mem_mb) >= 0)
                           => ctx_store.thresholds.mem_mb = Val(t.mem_mb)
           /\ b.time_window_sec # None =>
                 LET tw == Val(b.time_window_sec)
                 IN ctx_store.time_window_sec =
                       (IF tw < 10 THEN 10 ELSE IF tw > 600 THEN 600 ELSE tw)

\* C17 witness: time_window_sec 5 was written together with a watch list
\* and thresholds out of range, and the context read back has 10, the
\* watch list and the thresholds clamped.
C17_Witness ==
    /\ body # None
    /\ ContextFresh
    /\ Val(body).time_window_sec = Some(5)
    /\ ctx_store.time_window_sec = 10
    /\ Val(body).watch = Some({NameAb})
    /\ ctx_store.watch = {NameAb}
    /\ Val(body).thresholds = Some([cpu_percent |-> Some(150), mem_mb |-> Some(0 - 1)])
    /\ ctx_store.thresholds = [cpu_percent |-> 100, mem_mb |-> 0]

\* round(W / 1.5) for an integer W >= 0: 2W/3 rounded to the nearest
\* integer (its fraction is 0, 1/3 or 2/3, never 1/2)
RoundedSamples(w) == (4 * w + 3) \div 6

\* C18 as claimed: for a time window W in 10..600 the selector looks at
\* exactly the last min(M, N) entries of a snapshot of M entries, where
\* N = max(1, round(W / 1.5)).
C18_WindowIsRounded ==
    (analysis_pc = "select_done" /\ ctx_store.time_window_sec \in 10..600) =>
        SelectedWindow =
            LastN(snapshot, Min2(Len(snapshot), Max2(1, RoundedSamples(ctx_store.time_window_sec))))

\* ------------------------------------------------------------ result shape
\* C19 as claimed: a result of the detection step, from either detector,
\* suggests "Throttle CPU" or "Kill"; a Throttle result carries a
\* throttle_value in [0, 1] and a Kill result carries none.
C19_ActionIsThrottleOrKill ==
    (analysis_pc = "detect_done" /\ result # None) =>
        /\ Val(result).suggested_action \in {"Throttle CPU", "Kill"}
        /\ Val(result).suggested_action = "Throttle CPU" =>
              /\ Val(result).throttle_value # None
              /\ Val(Val(result).throttle_value) \in 0..10
        /\ Val(result).suggested_action = "Kill" => Val(result).throttle_value = None

\* ------------------------------------------------------------ cooldown
\* The detection step of a cycle returns its result in this step.
DetectionReturns ==
    /\ analysis_pc \in {"get_context", "model_call"}
    /\ result' # None

\* C20: the cooldown map changes for a pid only in the step that publishes
\* an auto-fix for that pid, which records the current time (so a result
\* blocked by the cooldown leaves the map as it is); a Throttle or Kill
\* result for a pid whose last published auto-fix is 60 seconds old or
\* older goes to publish, and the publish that succeeds marks the result
\* auto_fix_applied = true.
C20_CoolingEndsByElapsedTime ==
    [][/\ \A p \in TargetPids :
             last_auto_fix'[p] # last_auto_fix[p] =>
                 /\ analysis_pc = "publish"
                 /\ ResultPid = p
                 /\ channel' = Published(Val(command), "auto")
                 /\ last_auto_fix'[p] = Some(now)
       /\ (/\ DetectionReturns
           /\ Dispatchable(Val(result'))
           /\ last_auto_fix[Val(result').target_pid] # None
           /\ now - Val(last_auto_fix[Val(result').target_pid]) >= AUTO_FIX_COOLDOWN_SEC)
              => /\ analysis_pc' = "publish"
                 /\ command' # None
       /\ (/\ DetectionReturns
           /\ last_auto_fix[Val(result').target_pid] # None
           /\ now - Val(last_auto_fix[Val(result').target_pid]) < AUTO_FIX_COOLDOWN_SEC)
              => /\ analysis_pc' = "get_override"
                 /\ last_auto_fix' = last_auto_fix
       /\ (analysis_pc = "publish" /\ analysis_pc' = "get_override")
              => /\ Val(result').auto_fix_applied
                 /\ last_auto_fix'[ResultPid] = Some(now)]_vars

\* C20 witness: a result for a pid whose last auto-fix was published 60
\* seconds ago or earlier has passed the gate and its command is about to
\* be published again.
C20_Witness ==
    /\ analysis_pc = "publish"
    /\ command # None
    /\ last_auto_fix[ResultPid] # None
    /\ auto_published[ResultPid] = last_auto_fix[ResultPid]
    /\ now - Val(last_auto_fix[ResultPid]) >= AUTO_FIX_COOLDOWN_SEC

\* ------------------------------------------------------------ the console specification
\* One viewer session and its message handlers next to the analysis loop
\* (no key is set, the rules detect) on a buffer that holds a process over
\* the cpu threshold.
InitConsole ==
    /\ IngestLoaded(<<HotCpu>>)
    /\ now \in StartTimes
    /\ DispatchIdle
    /\ api_key = FALSE
    /\ ctx_store = DefaultContext
    /\ redis_context = EmptyStore
    /\ body = None
    /\ overrides \in InitialLedgers
    /\ analysis_pc = "sleep"
    /\ CycleIdle
    /\ SessionsIdle
    /\ BroadcastIdle

ConsoleSession(s) ==
    \/ Connect(s)
    \/ PeerDrop(s)
    \/ EndpointClose(s)
    \/ RecvApplyFix(s)
    \/ HandlerOverrideRead(s)
    \/ HandlerOverrideWrite(s)
    \/ RecvDismiss(s)
    \/ HandlerDismissWrite(s)
    \/ HandlerRaises(s)

NextConsole ==
    \/ RuleAnalysis
    \/ \E s \in PipelineSessions : ConsoleSession(s)

SpecConsole == InitConsole /\ [][NextConsole]_vars

\* ------------------------------------------------------------ viewer messages
\* The step in which session s receives an apply_fix whose command names an
\* override, the step in which its record_override returns, and the two
\* steps of a dismiss_anomaly.
ApplyFixReceived(s) == msgs' # msgs /\ handler'[s].op = "override_hget"
OverrideRecorded(s) ==
    handler[s].op = "override_hset" /\ handler'[s].op = "idle" /\ conn'[s] = conn[s]
DismissReceived(s) == msgs' # msgs /\ handler'[s].op = "dismiss_hset"
DismissRecorded(s) ==
    handler[s].op = "dismiss_hset" /\ handler'[s].op = "idle" /\ conn'[s] = conn[s]

\* The command a call of record_override stands for.
CommandOfCall(h) ==
    IF h.action = "throttle" THEN ThrottleCommand(h.pid, Val(h.throttle)) ELSE KillCommand(h.pid)

\* C21: an apply_fix with throttle:<pid>:<value> or kill:<pid> puts exactly
\* that command on the command channel, whatever the cooldown map holds and
\* without touching the map, the clock reading or the running cycle; when
\* its record_override returns, the pid's record holds last_action throttle
\* with last_throttle = <value>, or last_action kill with last_throttle null.
C21_ApplyFixIsDirect ==
    [][\A s \in Sessions :
          /\ ApplyFixReceived(s) =>
                /\ channel' = Published(CommandOfCall(handler'[s]), "viewer")
                /\ handler'[s].action \in {"throttle", "kill"}
                /\ UNCHANGED <<last_auto_fix, auto_published, now, analysis_pc, result, command>>
          /\ OverrideRecorded(s) =>
                /\ overrides'[handler[s].pid] # None
                /\ Val(overrides'[handler[s].pid]).last_action = Some(handler[s].action)
                /\ handler[s].action = "throttle" =>
                      /\ handler[s].throttle # None
                      /\ Val(overrides'[handler[s].pid]).last_throttle = handler[s].throttle
                /\ handler[s].action = "kill" =>
                      Val(overrides'[handler[s].pid]).last_throttle = None]_vars

\* C21 witness: while pid 1 is cooling after an auto-fix, a viewer's kill:1
\* is on the channel and the record of pid 1, which held a throttle, holds
\* last_action kill and no throttle.
C21_Witness ==
    /\ channel = Published(KillCommand(1), "viewer")
    /\ last_auto_fix[1] # None
    /\ ~CooldownOpen(1, now, last_auto_fix)
    /\ \A s \in Sessions : handler[s].op = "idle"
    /\ overrides[1] # None
    /\ Val(overrides[1]).last_action = Some("kill")
    /\ Val(overrides[1]).last_throttle = None
    /\ Val(overrides[1]).dismiss_count = Some(2)

\* C22: the two steps of handling a dismiss_anomaly leave the command
\* channel, the cooldown map, the clock reading and the running cycle (its
\* result and its pending command) as they are; the only thing that
\* changes outside the session is the ledger record of the dismissed pid.
C22_DismissOnlyTouchesLedger ==
    [][\A s \in Sessions :
          /\ DismissReceived(s) =>
                UNCHANGED <<channel, last_auto_fix, auto_published, now, analysis_pc,
                            result, command, overrides>>
          /\ DismissRecorded(s) =>
                /\ UNCHANGED <<channel, last_auto_fix, auto_published, now, analysis_pc,
                               result, command>>
                /\ \A p \in Pids : p # handler[s].pid => overrides'[p] = overrides[p]]_vars

\* C22 witness: pid 1 was dismissed by a viewer and the auto-fix published
\* for it is still the last command on the channel, the pid still cooling.
C22_Witness ==
    /\ dismissed[1] >= 1
    /\ \A s \in Sessions : handler[s].op = "idle"
    /\ channel # None
    /\ Val(channel).by = "auto"
    /\ last_auto_fix[1] = Some(now)
    /\ ~CooldownOpen(1, now, last_auto_fix)

\* ------------------------------------------------------------ ledger merges
\* The write of session s is not interleaved with another write of the
\* same pid: the record it read is still the stored one.
OneAtATime(s) == handler[s].existing = overrides[handler[s].pid]

\* a field of a record that may be absent
FieldOf(rec, f) == IF rec = None THEN None ELSE Val(rec)[f]
NameOf(rec) == IF rec = None THEN <<>> ELSE Val(rec).target_name

\* C23: a ledger write that runs one at a time merges: record_override
\* leaves dismiss_count as stored, record_dismiss leaves last_throttle and
\* last_action as stored, each keeps the stored target_name when the new
\* name is empty and writes the new one otherwise, and each leaves a record
\* behind when the pid had none.
C23_LedgerWritesMerge ==
    [][\A s \in Sessions :
          LET p == handler[s].pid
          IN /\ (OverrideRecorded(s) /\ OneAtATime(s)) =>
                   /\ overrides'[p] # None
                   /\ FieldOf(overrides'[p], "dismiss_count") = FieldOf(overrides[p], "dismiss_count")
                   /\ NameOf(overrides'[p]) =
                         IF handler[s].name = <<>> THEN NameOf(overrides[p]) ELSE handler[s].name
             /\ (DismissRecorded(s) /\ OneAtATime(s)) =>
                   /\ overrides'[p] # None
                   /\ FieldOf(overrides'[p], "last_throttle") = FieldOf(overrides[p], "last_throttle")
                   /\ FieldOf(overrides'[p], "last_action") = FieldOf(overrides[p], "last_action")
                   /\ NameOf(overrides'[p]) =
                         IF handler[s].name = <<>> THEN NameOf(overrides[p]) ELSE handler[s].name]_vars

\* C23 witness: with an empty buffer (so the override's name is empty) the
\* record of pid 1 (throttled by hand, named, dismissed twice) went through
\* a kill and kept its name and count; pid 2, which had no record, has one
\* from a dismiss.
C23_Witness ==
    /\ metrics_buffer = <<>>
    /\ \A s \in Sessions : handler[s].op = "idle"
    /\ overrides[1] = Some(OverrideRecord(None, Some("kill"), NameAb, Some(2)))
    /\ overrides[2] # None
    /\ Val(overrides[2]).dismiss_count = Some(1)
    /\ Val(overrides[2]).last_action = None

\* ------------------------------------------------------------ buffer contents
\* C24 as claimed: every entry of the buffer is a sample object (a dict with
\* pid, name, cpu_percent and mem_mb); a record whose payload is JSON of
\* another type is never appended.
C24_BufferHoldsOnlySamples ==
    \A i \in 1..Len(metrics_buffer) : metrics_buffer[i].kind = "obj"

\* ------------------------------------------------------------ the interleaving specification
\* The four activities startup creates or the endpoint serves, interleaved
\* at their awaits: the consumer on a stream the producer appends to, the
\* one analysis loop (no key is set), the metrics broadcast, and a viewer
\* session whose apply_fix handler publishes commands of its own (the
\* session ends only when its handler raises).
InitInterleave ==
    /\ IngestLoaded(<<HotCpu>>)
    /\ now \in StartTimes
    /\ DispatchIdle
    /\ api_key = FALSE
    /\ ctx_store = DefaultContext
    /\ redis_context = EmptyStore
    /\ body = None
    /\ overrides = [p \in Pids |-> None]
    /\ analysis_pc = "sleep"
    /\ CycleIdle
    /\ SessionsIdle
    /\ BroadcastIdle

NextInterleave ==
    \/ XAdd
    \/ ConsumerPoll
    \/ RuleAnalysis
    \/ AnalysisBuildRaises
    \/ BroadcastStart
    \/ BroadcastSend
    \/ \E s \in PipelineSessions :
          \/ Connect(s)
          \/ RecvApplyFix(s)
          \/ HandlerOverrideRead(s)
          \/ HandlerOverrideWrite(s)
          \/ HandlerRaises(s)

SpecInterleave == InitInterleave /\ [][NextInterleave]_vars

\* C25: however the consumer, the analysis loop, the broadcast and the
\* viewer's handler interleave, a cycle that is about to publish still has
\* its gate open (no other auto-fix for the pid was recorded since the gate
\* was read), and an auto-fix published for a pid that had one before comes
\* 60 seconds or more after it.
C25_AutoFixesSixtyApart ==
    /\ [](analysis_pc = "publish" => CooldownOpen(ResultPid, now, last_auto_fix))
    /\ [][\A p \in TargetPids :
             (/\ analysis_pc = "publish"
              /\ analysis_pc' = "get_override"
              /\ ResultPid = p
              /\ auto_published[p] # None)
             => /\ now - Val(auto_published[p]) >= AUTO_FIX_COOLDOWN_SEC
                /\ auto_published'[p] = Some(now)]_vars

\* C25 witness: a second auto-fix for a pid is about to be published, 60
\* seconds or more after the first, while the consumer has appended a new
\* sample, a metrics broadcast is under way, and the viewer's own command
\* for the pid is the last on the channel with its handler in flight.
C25_Witness ==
    /\ analysis_pc = "publish"
    /\ auto_published[ResultPid] # None
    /\ now - Val(auto_published[ResultPid]) >= AUTO_FIX_COOLDOWN_SEC
    /\ last_id > 1
    /\ bc_pc = "send"
    /\ channel # None
    /\ Val(channel).by = "viewer"
    /\ \E s \in Sessions : handler[s].op = "override_hset" /\ handler[s].pid = ResultPid

\* ------------------------------------------------------------ targets
\* the pids of the candidates of the running cycle
CandidatePids == {metrics_for_claude[i].pid : i \in 1..Len(metrics_for_claude)}

\* C26 as claimed: the target pid of the result of a cycle, and of the
\* command the cycle is about to publish, is the pid of one of the
\* candidates the selector built for that cycle, whichever detector
\* produced the result.
C26_TargetIsACandidate ==
    /\ result # None => ResultPid \in CandidatePids
    /\ command # None => Val(command)[2].n \in CandidatePids
====
